---- MODULE Spec2Model ----
(***************************************************************************)
(* Retrieval-sufficiency workflow of vector_rag.py (a langgraph StateGraph *)
(* of four nodes) together with the document store it drives,              *)
(* SupabaseVectorManager of vector_store_manager.py.                       *)
(*                                                                         *)
(* Text is modelled as a sequence of tokens (each token an indivisible     *)
(* piece of text), so that formatting, trimming, lower-casing and          *)
(* splitting are computed the way the Python code computes them.           *)
(* A Python value that is falsy (None or "") is the empty sequence.        *)
(***************************************************************************)
EXTENDS Integers, Sequences, FiniteSets, TLC

\* ------------------------------------------------------------------ bounds
MaxInitRows == 2      \* rows already in the store when a run starts
MaxQueries  == 2      \* length of the list the gap planner may return
WfChunks    == 1      \* chunks of the search result, workflow runs
MaxResults  == 2      \* search results per ingestion call, ingestion spec
MaxChunks   == 3      \* chunks per search result, ingestion spec
MaxRespLen  == 3      \* tokens in a reply of the sufficiency judge
MaxStoreRows == 3     \* rows of the store, hybrid search spec
MaxK        == 2      \* match count asked for, hybrid search spec
MaxKnowledge == 2     \* documents handed to the course pipeline
MaxModules  == 2      \* modules the organizer may plan
MaxLessons  == 2      \* lessons of one module
MaxRoundQueries == 6  \* length of the planned list, augmentation round spec
MaxConcQueries == 1   \* length of the planned list, two-run spec
MaxRouteLen == 3      \* tokens in an output of the intent decider
MaxTextLen  == 2      \* characters of a text to escape
MaxKnowledgeItems == 2 \* items of the knowledge list, sources spec
MaxNestedLen == 1     \* documents of a nested list, sources spec

\* ------------------------------------------------------ program constants
InitialK == 25        \* k of the first hybrid search
AugmentK == 20        \* k of the hybrid search after augmentation

VARIABLES
  pc,               \* node about to run: a graph node, "END" or "ERROR"
  query,            \* State.query
  goal,             \* State.goal
  desired_focus,    \* State.desired_focus
  target_audience,  \* State.target_audience
  search_queries,   \* State.search_queries (isNone: the planner returned None)
  is_sufficient,    \* State.is_sufficient: "unset", "True" or "False"
  documents,        \* State.documents
  table,            \* number of rows of the store's table (ids 1..table)
  gi,               \* gather_and_process_node: gap queries already ingested
  response,         \* reply the judge gave to the node that ran last
  respValid,        \* TRUE while response holds such a reply
  searchLog,        \* perform_hybrid_search calls made: <<[q, k, rpc, docs]>>
  ingestLog,        \* create_documents_from_search calls made
  nCheck,           \* executions of check_sufficiency_node
  nPlan,            \* executions of knowledge_planner_node
  initialDocs,      \* documents returned by the first retrieval
  assessedDocs,     \* documents the last sufficiency check looked at
  docsAssessed,     \* TRUE iff State.documents was checked since it was set
  err,              \* what ended the run in "ERROR" ("none" otherwise)
  ing,              \* one isolated create_documents_from_search call
  hs,               \* one isolated perform_hybrid_search call
  course,           \* CourseState of the course pipeline of gen_agent.py
  runs,             \* State of each of two workflow runs sharing the store
  call              \* one isolated call of a pure function

vars == <<pc, query, goal, desired_focus, target_audience, search_queries,
          is_sufficient, documents, table, gi, response, respValid,
          searchLog, ingestLog, nCheck, nPlan, initialDocs, assessedDocs,
          docsAssessed, err, ing, hs, course, runs, call>>

Ended == {"END", "ERROR"}

\* ------------------------------------------------------------ text helpers
SeqsUpTo(S, n) == UNION {[1..m -> S] : m \in 0..n}

RECURSIVE JoinParts(_, _)
\* sep.join(parts)
JoinParts(parts, sep) ==
  IF parts = <<>> THEN <<>>
  ELSE IF Len(parts) = 1 THEN parts[1]
  ELSE parts[1] \o sep \o JoinParts(Tail(parts), sep)

\* A query builder without the test for an empty core query.
construct_rich_query_unchecked(q, g, f, a) ==
  LET p1 == << <<"The user is searching for information about: '">> \o q \o <<"'.">> >>
      p2 == IF g # <<>>
            THEN << <<"The main goal is to ">> \o g \o <<".">> >> ELSE <<>>
      p3 == IF f # <<>>
            THEN << <<"The search results should have a strong '">> \o f \o <<"' focus.">> >>
            ELSE <<>>
      p4 == IF a # <<>>
            THEN << <<"The content is intended for a '">> \o a \o <<"' audience.">> >>
            ELSE <<>>
  IN [raised |-> FALSE, value |-> JoinParts(p1 \o p2 \o p3 \o p4, <<" ">>)]

construct_rich_query(q, g, f, a) ==
  IF q = <<>>
  THEN [raised |-> TRUE, value |-> <<>>]
  ELSE LET p1 == << <<"The user is searching for information about: '">> \o q \o <<"'.">> >>
           p2 == IF g # <<>>
                 THEN << <<"The main goal is to ">> \o g \o <<".">> >> ELSE <<>>
           p3 == IF f # <<>>
                 THEN << <<"The search results should have a strong '">> \o f \o <<"' focus.">> >>
                 ELSE <<>>
           p4 == IF a # <<>>
                 THEN << <<"The content is intended for a '">> \o a \o <<"' audience.">> >>
                 ELSE <<>>
       IN [raised |-> FALSE, value |-> JoinParts(p1 \o p2 \o p3 \o p4, <<" ">>)]

\* ---------------------------------------------------------- document store
\* Rows the ranking RPC may return for match_count k: the ranking itself is
\* opaque; the model lets it return nothing, the n oldest or the n newest
\* stored rows, for every n up to k.
RankedRows(tbl, k) ==
  {[i \in 1..n |-> [id |-> i]] : n \in 0..(IF tbl < k THEN tbl ELSE k)}
  \cup {[i \in 1..n |-> [id |-> tbl - n + i]] : n \in 0..(IF tbl < k THEN tbl ELSE k)}

\* What embedding the query and executing the RPC can do: raise, answer with
\* an error and no data, or answer with rows (possibly none).
RpcOutcomes(tbl, k) ==
  {[kind |-> "raise_embed", rows |-> <<>>],
   [kind |-> "raise_rpc", rows |-> <<>>],
   [kind |-> "error", rows |-> <<>>]}
  \cup {[kind |-> "data", rows |-> r] : r \in RankedRows(tbl, k)}

Document(row) == [page_content |-> row.id, metadata |-> [id |-> row.id]]

\* A conversion that builds the documents in the reverse order of the rows.
perform_hybrid_search_reversed(q, k, rpc) ==
  IF rpc.kind \in {"raise_embed", "raise_rpc"}
  THEN [raised |-> TRUE, docs |-> <<>>]
  ELSE IF rpc.kind = "data" /\ rpc.rows # <<>>
       THEN [raised |-> FALSE,
             docs |-> [i \in 1..Len(rpc.rows) |->
                         Document(rpc.rows[Len(rpc.rows) + 1 - i])]]
       ELSE [raised |-> FALSE, docs |-> <<>>]

perform_hybrid_search(q, k, rpc) ==
  IF rpc.kind \in {"raise_embed", "raise_rpc"}
  THEN [raised |-> TRUE, docs |-> <<>>]
  ELSE IF rpc.kind = "data" /\ rpc.rows # <<>>
       THEN [raised |-> FALSE,
             docs |-> [i \in 1..Len(rpc.rows) |-> Document(rpc.rows[i])]]
       ELSE [raised |-> FALSE, docs |-> <<>>]

\* ------------------------------------------------------ sufficiency judge
THINK == "</think>"

RespTokens == {"true", "TRUE", "false", " ", THINK, "maybe"}

Responses == SeqsUpTo(RespTokens, MaxRespLen)

\* The judge chain either raises or yields a text.
JudgeOutcomes ==
  {[kind |-> "raise", text |-> <<>>]}
  \cup {[kind |-> "text", text |-> t] : t \in Responses}

IsSpace(t) == t \in {" ", "\n", "\t"}

RECURSIVE lstrip(_)
lstrip(s) ==
  IF s # <<>> /\ IsSpace(Head(s)) THEN lstrip(Tail(s)) ELSE s

RECURSIVE rstrip(_)
rstrip(s) ==
  IF s # <<>> /\ IsSpace(s[Len(s)]) THEN rstrip(SubSeq(s, 1, Len(s) - 1)) ELSE s

\* str.strip()
strip(s) == rstrip(lstrip(s))

LowerTok(t) ==
  CASE t = "TRUE" -> "true"
    [] t = "FALSE" -> "false"
    [] OTHER -> t

\* str.lower()
lower(s) == [i \in DOMAIN s |-> LowerTok(s[i])]

Contains(s, t) == \E i \in DOMAIN s : s[i] = t

RECURSIVE split(_, _)
\* str.split(sep): the pieces between the occurrences of sep
split(s, sep) ==
  IF ~Contains(s, sep) THEN <<s>>
  ELSE LET i == CHOOSE j \in DOMAIN s :
                   s[j] = sep /\ \A m \in 1..(j - 1) : s[m] # sep
       IN <<SubSeq(s, 1, i - 1)>> \o split(SubSeq(s, i + 1, Len(s)), sep)

\* A parse that takes every reply other than "false" for a yes.
parse_sufficiency_loose(resp) ==
  LET parts == split(resp, THINK)
  IN IF lower(strip(parts[Len(parts)])) = <<"false">> THEN "False" ELSE "True"

\* check_sufficiency_node, from the reply to the value it returns
parse_sufficiency(resp) ==
  LET afterThink ==
        IF Contains(resp, THINK)
        THEN LET parts == split(resp, THINK)
             IN IF Len(parts) > 1
                THEN lower(strip(parts[Len(parts)])) = <<"true">>
                ELSE FALSE
        ELSE FALSE
      whole == lower(strip(resp)) = <<"true">>
  IN IF IF whole THEN TRUE ELSE afterThink THEN "True" ELSE "False"

\* A decision that plans augmentation whatever the verdict.
decide_always_augment(sufficient_value) == "plan_knowledge_augmentation"

decide_to_augment_or_answer(sufficient_value) ==
  IF sufficient_value = "True" THEN "END" ELSE "plan_knowledge_augmentation"

\* A graph whose gather_and_process node leads back to the check.
workflow_edge_loop(n) ==
  CASE n = "initial_retriever" -> "check_sufficiency"
    [] n = "plan_knowledge_augmentation" -> "gather_and_process"
    [] n = "gather_and_process" -> "check_sufficiency"

\* Edges of the compiled graph: the node that runs after node n.
workflow_edge(n) ==
  CASE n = "initial_retriever" -> "check_sufficiency"
    [] n = "plan_knowledge_augmentation" -> "gather_and_process"
    [] n = "gather_and_process" -> "END"

\* ---------------------------------------------------------------- ingestion
\* What refining and embedding one chunk does: both succeed, or one of the
\* calls inside the try block (lines 100-103) raises.
ChunkOutcomes == {"ok", "raises"}

\* One search result: whether it carries content, whether that content is a
\* str, and for every chunk the splitter cuts the text into, what refining
\* and embedding it does. Content that is not a str (a dict, a list) is given
\* the one chunk its text form would make.
SearchResults(maxC) ==
  {[has_content |-> FALSE, is_str |-> TRUE, chunks |-> <<>>]}
  \cup {[has_content |-> TRUE, is_str |-> TRUE, chunks |-> c] :
          c \in SeqsUpTo(ChunkOutcomes, maxC)}
  \cup {[has_content |-> TRUE, is_str |-> FALSE, chunks |-> <<"ok">>]}

\* What search_tool.invoke(topic) can do.
SearchOutcomes(maxR, maxC) ==
  {[kind |-> "raise", results |-> <<>>]}
  \cup {[kind |-> "results", results |-> r] : r \in SeqsUpTo(SearchResults(maxC), maxR)}

\* Workflow runs let every ingestion call find at most one search result.
WfSearchOutcomes == SearchOutcomes(1, WfChunks)

\* What the upsert can do: return the stored rows, return no data, raise.
UpsertOutcomes == {"ok", "nodata", "raise"}

RECURSIVE process_chunks_abort(_, _, _)
\* A chunk loop whose first failing chunk ends the loop.
process_chunks_abort(r, chunks, c) ==
  IF c > Len(chunks) THEN [rows |-> <<>>, tried |-> <<>>]
  ELSE IF chunks[c] # "ok" THEN [rows |-> <<>>, tried |-> <<<<r, c>>>>]
  ELSE LET rest == process_chunks_abort(r, chunks, c + 1)
       IN [rows |-> <<<<r, c>>>> \o rest.rows, tried |-> <<<<r, c>>>> \o rest.tried]

RECURSIVE process_chunks(_, _, _)
\* for chunk in content_chunks: try ... except: chunks c.. of result r
process_chunks(r, chunks, c) ==
  IF c > Len(chunks) THEN [rows |-> <<>>, tried |-> <<>>]
  ELSE LET rest == process_chunks(r, chunks, c + 1)
           row == IF chunks[c] = "ok" THEN <<<<r, c>>>> ELSE <<>>
       IN [rows |-> row \o rest.rows, tried |-> <<<<r, c>>>> \o rest.tried]

RECURSIVE process_results(_, _)
\* for result in search_results: results r.. of the list. split_text is
\* called outside the try block, on the content as it is: content that is
\* not a str makes it raise, which ends the loop and the call.
process_results(results, r) ==
  IF r > Len(results) THEN [rows |-> <<>>, tried |-> <<>>, raised |-> FALSE]
  ELSE IF ~results[r].has_content THEN process_results(results, r + 1)
  ELSE IF ~results[r].is_str
       THEN [rows |-> <<>>, tried |-> <<>>, raised |-> TRUE]
  ELSE LET rest == process_results(results, r + 1)
           this == process_chunks(r, results[r].chunks, 1)
       IN [rows |-> this.rows \o rest.rows, tried |-> this.tried \o rest.tried,
           raised |-> rest.raised]

\* A call that hands whatever it collected to the store, without the two
\* tests for an empty list (lines 89-90 and 118-119).
create_documents_from_search_unguarded(topic, search, upsert, tbl) ==
  LET none == [raised |-> FALSE, ret |-> <<>>, rows |-> <<>>, tried |-> <<>>,
               upserted |-> FALSE, table |-> tbl]
  IN IF search.kind = "raise" THEN [none EXCEPT !.raised = TRUE]
     ELSE LET p == process_results(search.results, 1)
              done == [none EXCEPT !.rows = p.rows, !.tried = p.tried]
          IN IF p.raised THEN [done EXCEPT !.raised = TRUE]
             ELSE
             CASE upsert = "raise" ->
                    [done EXCEPT !.raised = TRUE, !.upserted = TRUE]
               [] upsert = "nodata" ->
                    [done EXCEPT !.upserted = TRUE]
               [] upsert = "ok" ->
                    [done EXCEPT !.upserted = TRUE,
                                 !.ret = [i \in 1..Len(p.rows) |-> tbl + i],
                                 !.table = tbl + Len(p.rows)]

\* The call as a function of what its collaborators do and of the table:
\* raised, the returned ids, the rows handed to upsert, the chunks tried,
\* whether upsert was called, and the table afterwards.
create_documents_from_search(topic, search, upsert, tbl) ==
  LET none == [raised |-> FALSE, ret |-> <<>>, rows |-> <<>>, tried |-> <<>>,
               upserted |-> FALSE, table |-> tbl]
  IN IF search.kind = "raise" THEN [none EXCEPT !.raised = TRUE]
     ELSE IF search.results = <<>> THEN none
     ELSE LET p == process_results(search.results, 1)
              done == [none EXCEPT !.rows = p.rows, !.tried = p.tried]
          IN IF p.raised THEN [done EXCEPT !.raised = TRUE]
             ELSE IF p.rows = <<>> THEN done
             ELSE CASE upsert = "raise" ->
                         [done EXCEPT !.raised = TRUE, !.upserted = TRUE]
                    [] upsert = "nodata" ->
                         [done EXCEPT !.upserted = TRUE]
                    [] upsert = "ok" ->
                         [done EXCEPT !.upserted = TRUE,
                                      !.ret = [i \in 1..Len(p.rows) |-> tbl + i],
                                      !.table = tbl + Len(p.rows)]

\* ------------------------------------------------------------ the workflow
GapQueries == {"gap1", "gap2"}

\* What knowledge_gap_chain.invoke can do: raise, or yield None or a list.
PlannerOutcomes ==
  {[kind |-> "raise", queries |-> <<>>], [kind |-> "none", queries |-> <<>>]}
  \cup {[kind |-> "list", queries |-> l] : l \in SeqsUpTo(GapQueries, MaxQueries)}

NoIngest == [phase |-> "idle"]

NoSearch == [phase |-> "idle"]

NoCourse == [pc |-> "idle"]

NoRuns == <<>>

NoCall == [phase |-> "idle"]

\* The input of graph.invoke: the caller always formats a goal and an
\* audience text; the query and the desired focus may be empty.
Init ==
  /\ pc = "initial_retriever"
  /\ query \in {<<>>, <<"knives">>}
  /\ goal = <<"teach">>
  /\ desired_focus \in {<<>>, <<"technical">>}
  /\ target_audience = <<"beginner">>
  /\ search_queries = [isNone |-> TRUE, queries |-> <<>>]
  /\ is_sufficient = "unset"
  /\ documents = <<>>
  /\ table \in 0..MaxInitRows
  /\ gi = 0
  /\ response = <<>>
  /\ respValid = FALSE
  /\ searchLog = <<>>
  /\ ingestLog = <<>>
  /\ nCheck = 0
  /\ nPlan = 0
  /\ initialDocs = <<>>
  /\ assessedDocs = <<>>
  /\ docsAssessed = FALSE
  /\ err = "none"
  /\ ing = NoIngest
  /\ hs = NoSearch
  /\ course = NoCourse
  /\ runs = NoRuns
  /\ call = NoCall

Raise(e) == pc' = "ERROR" /\ err' = e

initial_retrieve_node ==
  /\ pc = "initial_retriever"
  /\ LET rq == construct_rich_query(query, goal, desired_focus, target_audience)
     IN IF rq.raised
        THEN /\ Raise("ValueError")
             /\ UNCHANGED <<documents, searchLog, initialDocs>>
        ELSE \E rpc \in RpcOutcomes(table, InitialK) :
               LET r == perform_hybrid_search(rq.value, InitialK, rpc)
               IN /\ searchLog' = Append(searchLog, [q |-> rq.value, k |-> InitialK,
                                                  rpc |-> rpc.kind, docs |-> r.docs])
                  /\ IF r.raised
                     THEN /\ Raise("search")
                          /\ UNCHANGED <<documents, initialDocs>>
                     ELSE /\ documents' = r.docs
                          /\ initialDocs' = r.docs
                          /\ pc' = workflow_edge("initial_retriever")
                          /\ err' = err
  /\ docsAssessed' = FALSE
  /\ UNCHANGED <<query, goal, desired_focus, target_audience, search_queries,
                 is_sufficient, table, gi, response, respValid, ingestLog,
                 nCheck, nPlan, assessedDocs, ing, hs, course, runs, call>>

\* A test that lets an empty document list through to the judge.
no_documents_never(docs) == FALSE

\* if not documents
no_documents(docs) == docs = <<>>

\* A check that, on a false verdict, also returns an emptied document list.
check_sufficiency_node_clearing ==
  /\ pc = "check_sufficiency"
  /\ nCheck' = nCheck + 1
  /\ IF no_documents(documents)
     THEN /\ is_sufficient' = "False"
          /\ pc' = decide_to_augment_or_answer("False")
          /\ assessedDocs' = documents
          /\ docsAssessed' = TRUE
          /\ response' = <<>>
          /\ respValid' = FALSE
          /\ err' = err
     ELSE \E out \in JudgeOutcomes :
            IF out.kind = "raise"
            THEN /\ Raise("judge")
                 /\ UNCHANGED <<is_sufficient, assessedDocs, docsAssessed,
                                response, respValid>>
            ELSE /\ is_sufficient' = parse_sufficiency(out.text)
                 /\ pc' = decide_to_augment_or_answer(is_sufficient')
                 /\ assessedDocs' = documents
                 /\ docsAssessed' = TRUE
                 /\ response' = out.text
                 /\ respValid' = TRUE
                 /\ err' = err
  /\ documents' = IF pc' = "ERROR" \/ is_sufficient' = "True"
                  THEN documents ELSE <<>>
  /\ UNCHANGED <<query, goal, desired_focus, target_audience, search_queries,
                 table, gi, searchLog, ingestLog, nPlan,
                 initialDocs, ing, hs, course, runs, call>>

check_sufficiency_node ==
  /\ pc = "check_sufficiency"
  /\ nCheck' = nCheck + 1
  /\ IF no_documents(documents)
     THEN /\ is_sufficient' = "False"
          /\ pc' = decide_to_augment_or_answer("False")
          /\ assessedDocs' = documents
          /\ docsAssessed' = TRUE
          /\ response' = <<>>
          /\ respValid' = FALSE
          /\ err' = err
     ELSE \E out \in JudgeOutcomes :
            IF out.kind = "raise"
            THEN /\ Raise("judge")
                 /\ UNCHANGED <<is_sufficient, assessedDocs, docsAssessed,
                                response, respValid>>
            ELSE /\ is_sufficient' = parse_sufficiency(out.text)
                 /\ pc' = decide_to_augment_or_answer(is_sufficient')
                 /\ assessedDocs' = documents
                 /\ docsAssessed' = TRUE
                 /\ response' = out.text
                 /\ respValid' = TRUE
                 /\ err' = err
  /\ UNCHANGED <<query, goal, desired_focus, target_audience, search_queries,
                 documents, table, gi, searchLog, ingestLog, nPlan,
                 initialDocs, ing, hs, course, runs, call>>

knowledge_planner_node ==
  /\ pc = "plan_knowledge_augmentation"
  /\ nPlan' = nPlan + 1
  /\ response' = <<>>
  /\ respValid' = FALSE
  /\ \E out \in PlannerOutcomes :
       IF out.kind = "raise"
       THEN /\ Raise("planner")
            /\ UNCHANGED search_queries
       ELSE /\ search_queries' = [isNone |-> out.kind = "none", queries |-> out.queries]
            /\ pc' = workflow_edge("plan_knowledge_augmentation")
            /\ err' = err
  /\ UNCHANGED <<query, goal, desired_focus, target_audience, is_sufficient,
                 documents, table, gi, searchLog, ingestLog, nCheck,
                 initialDocs, assessedDocs, docsAssessed, ing, hs, course, runs, call>>

\* A test that never takes the early return.
no_queries_planned_never(sq) == FALSE

\* if not state["search_queries"].queries
no_queries_planned(sq) == sq.queries = <<>>

\* gather_and_process_node, lines 279-282: None has no .queries (the node
\* raises); an empty list returns the documents as they are.
gather_and_process_skip ==
  /\ pc = "gather_and_process"
  /\ gi = 0
  /\ IF search_queries.isNone
     THEN /\ Raise("queries_none")
          /\ UNCHANGED <<documents>>
     ELSE /\ no_queries_planned(search_queries)
          /\ documents' = documents
          /\ pc' = workflow_edge("gather_and_process")
          /\ err' = err
  /\ UNCHANGED <<query, goal, desired_focus, target_audience, search_queries,
                 is_sufficient, table, gi, response, respValid, searchLog,
                 ingestLog, nCheck, nPlan, initialDocs, assessedDocs,
                 docsAssessed, ing, hs, course, runs, call>>

\* A loop that is left after its first turn.
all_queries_ingested_early(n, queries) == n >= 1

\* The for loop over the planned queries is over after n turns.
all_queries_ingested(n, queries) == n = Len(queries)

\* gather_and_process_node, lines 287-289: one turn of the loop
gather_and_process_ingest ==
  /\ pc = "gather_and_process"
  /\ ~search_queries.isNone
  /\ ~no_queries_planned(search_queries)
  /\ ~all_queries_ingested(gi, search_queries.queries)
  /\ gi < Len(search_queries.queries)
  /\ \E search \in WfSearchOutcomes, upsert \in UpsertOutcomes :
       LET topic == search_queries.queries[gi + 1]
           r == create_documents_from_search(topic, search, upsert, table)
       IN /\ ingestLog' = Append(ingestLog,
                             [q |-> topic, raised |-> r.raised])
          /\ table' = r.table
          /\ IF r.raised
             THEN /\ Raise("ingest")
                  /\ gi' = gi
             ELSE /\ gi' = gi + 1
                  /\ UNCHANGED <<pc, err>>
  /\ UNCHANGED <<query, goal, desired_focus, target_audience, search_queries,
                 is_sufficient, documents, response, respValid, searchLog,
                 nCheck, nPlan, initialDocs, assessedDocs, docsAssessed, ing, hs, course, runs, call>>

\* gather_and_process_node, lines 291-297: re-retrieve and return
gather_and_process_retrieve ==
  /\ pc = "gather_and_process"
  /\ ~search_queries.isNone
  /\ ~no_queries_planned(search_queries)
  /\ all_queries_ingested(gi, search_queries.queries)
  /\ \E rpc \in RpcOutcomes(table, AugmentK) :
       LET r == perform_hybrid_search(query, AugmentK, rpc)
       IN /\ searchLog' = Append(searchLog, [q |-> query, k |-> AugmentK,
                                          rpc |-> rpc.kind, docs |-> r.docs])
          /\ IF r.raised
             THEN /\ Raise("search")
                  /\ UNCHANGED <<documents, docsAssessed, gi>>
             ELSE /\ documents' = r.docs
                  /\ docsAssessed' = FALSE
                  /\ gi' = 0
                  /\ pc' = workflow_edge("gather_and_process")
                  /\ err' = err
  /\ UNCHANGED <<query, goal, desired_focus, target_audience, search_queries,
                 is_sufficient, table, response, respValid, ingestLog,
                 nCheck, nPlan, initialDocs, assessedDocs, ing, hs, course, runs, call>>

Next ==
  \/ initial_retrieve_node
  \/ check_sufficiency_node
  \/ knowledge_planner_node
  \/ gather_and_process_skip
  \/ gather_and_process_ingest
  \/ gather_and_process_retrieve

Spec == Init /\ [][Next]_vars

\* The graph runtime runs the next node whenever there is one.
FairSpec == Spec /\ WF_vars(Next)

\* ------------------------------------- one ingestion call, on its own
InitIngest ==
  /\ pc = "ingest_only"
  /\ query = <<>>
  /\ goal = <<>>
  /\ desired_focus = <<>>
  /\ target_audience = <<>>
  /\ search_queries = [isNone |-> TRUE, queries |-> <<>>]
  /\ is_sufficient = "unset"
  /\ documents = <<>>
  /\ table \in 0..MaxInitRows
  /\ gi = 0
  /\ response = <<>>
  /\ respValid = FALSE
  /\ searchLog = <<>>
  /\ ingestLog = <<>>
  /\ nCheck = 0
  /\ nPlan = 0
  /\ initialDocs = <<>>
  /\ assessedDocs = <<>>
  /\ docsAssessed = FALSE
  /\ err = "none"
  /\ hs = NoSearch
  /\ course = NoCourse
  /\ runs = NoRuns
  /\ call = NoCall
  /\ \E search \in SearchOutcomes(MaxResults, MaxChunks), upsert \in UpsertOutcomes :
       ing = [phase |-> "call", topic |-> "gap1", search |-> search,
              upsert |-> upsert, table0 |-> table,
              out |-> create_documents_from_search(
                        "gap1", [kind |-> "results", results |-> <<>>], upsert, table)]

ingest_call ==
  /\ ing.phase = "call"
  /\ LET r == create_documents_from_search(ing.topic, ing.search, ing.upsert, table)
     IN /\ ing' = [ing EXCEPT !.phase = IF r.raised THEN "raised" ELSE "returned",
                              !.out = r]
        /\ table' = r.table
  /\ UNCHANGED <<pc, query, goal, desired_focus, target_audience,
                 search_queries, is_sufficient, documents, gi, response,
                 respValid, searchLog, ingestLog, nCheck, nPlan, initialDocs,
                 assessedDocs, docsAssessed, err, hs, course, runs, call>>

NextIngest == ingest_call

SpecIngest == InitIngest /\ [][NextIngest]_vars

\* ------------------------------------- one hybrid search call, on its own
\* The store holds up to MaxStoreRows rows and the caller asks for k of
\* them, k up to MaxK.
InitSearch ==
  /\ pc = "search_only"
  /\ query = <<>>
  /\ goal = <<>>
  /\ desired_focus = <<>>
  /\ target_audience = <<>>
  /\ search_queries = [isNone |-> TRUE, queries |-> <<>>]
  /\ is_sufficient = "unset"
  /\ documents = <<>>
  /\ table \in 0..MaxStoreRows
  /\ gi = 0
  /\ response = <<>>
  /\ respValid = FALSE
  /\ searchLog = <<>>
  /\ ingestLog = <<>>
  /\ nCheck = 0
  /\ nPlan = 0
  /\ initialDocs = <<>>
  /\ assessedDocs = <<>>
  /\ docsAssessed = FALSE
  /\ err = "none"
  /\ ing = NoIngest
  /\ course = NoCourse
  /\ runs = NoRuns
  /\ call = NoCall
  /\ \E q \in {<<"knives">>, <<"gap1">>, <<"knives", " ", "gap1">>}, k \in 1..MaxK :
       \E rpc \in RpcOutcomes(table, k) :
         hs = [phase |-> "call", q |-> q, k |-> k, rpc |-> rpc,
               out |-> [raised |-> FALSE, docs |-> <<>>]]

search_call ==
  /\ hs.phase = "call"
  /\ LET r == perform_hybrid_search(hs.q, hs.k, hs.rpc)
     IN hs' = [hs EXCEPT !.phase = IF r.raised THEN "raised" ELSE "returned",
                         !.out = r]
  /\ UNCHANGED <<pc, query, goal, desired_focus, target_audience,
                 search_queries, is_sufficient, documents, table, gi,
                 response, respValid, searchLog, ingestLog, nCheck, nPlan,
                 initialDocs, assessedDocs, docsAssessed, err, ing, course, runs, call>>

NextSearch == search_call

SpecSearch == InitSearch /\ [][NextSearch]_vars

\* ------------------------------------------- the course pipeline, gen_agent
\* What vector_rag.invoke can hand to the course pipeline: it raises, or it
\* returns documents with the stored verdict (a true verdict is only ever
\* given about a non-empty document list).
RagOutcomes ==
  {[raised |-> TRUE, docs |-> <<>>, is_sufficient |-> "unset"]}
  \cup {[raised |-> FALSE,
         docs |-> [i \in 1..n |-> Document([id |-> i])],
         is_sufficient |-> s] :
          n \in 0..MaxKnowledge, s \in {"False"}}
  \cup {[raised |-> FALSE,
         docs |-> [i \in 1..n |-> Document([id |-> i])],
         is_sufficient |-> s] :
          n \in 1..MaxKnowledge, s \in {"True"}}

\* The module lists the structured call can yield: every lesson is planned,
\* none has content yet.
ModuleLists == SeqsUpTo(SeqsUpTo({"planned"}, MaxLessons), MaxModules)

\* structured_llm.invoke of module_organizer_node: raises, yields an object
\* without a modules attribute, or yields a ModulesList.
OrganizerOutcomes ==
  {[kind |-> "raise", modules |-> <<>>], [kind |-> "nofield", modules |-> <<>>]}
  \cup {[kind |-> "list", modules |-> m] : m \in ModuleLists}

\* What every lesson's structured call does, by module and lesson position.
LessonOutcomes == [(1..MaxModules) \X (1..MaxLessons) -> {"ok", "raise"}]

\* Next node of the course_maker graph after node n.
course_edge(n) ==
  CASE n = "course_knowledge_gatherer_node" -> "module_organizer_node"
    [] n = "module_organizer_node" -> "lesson_writer"
    [] n = "lesson_writer" -> "finalize_course"
    [] n = "finalize_course" -> "END"

\* The state at the entry of course_knowledge_gatherer_node. The field
\* runtime says what the graph runtime does with a key no node has written
\* when a node reads state[key]: it leaves the key out (KeyError) or it
\* supplies the declared default.
InitCourse ==
  /\ pc = "course_only"
  /\ query = <<>>
  /\ goal = <<>>
  /\ desired_focus = <<>>
  /\ target_audience = <<>>
  /\ search_queries = [isNone |-> TRUE, queries |-> <<>>]
  /\ is_sufficient = "unset"
  /\ documents = <<>>
  /\ table = 0
  /\ gi = 0
  /\ response = <<>>
  /\ respValid = FALSE
  /\ searchLog = <<>>
  /\ ingestLog = <<>>
  /\ nCheck = 0
  /\ nPlan = 0
  /\ initialDocs = <<>>
  /\ assessedDocs = <<>>
  /\ docsAssessed = FALSE
  /\ err = "none"
  /\ ing = NoIngest
  /\ hs = NoSearch
  /\ runs = NoRuns
  /\ call = NoCall
  /\ \E o \in BOOLEAN, rt \in {"omits", "defaults"} :
       course = [pc |-> "course_knowledge_gatherer_node",
                 objective |-> o,
                 runtime |-> rt,
                 rag |-> [raised |-> FALSE, docs |-> <<>>, is_sufficient |-> "unset"],
                 ragCalled |-> FALSE,
                 hasKnowledge |-> FALSE,
                 knowledge |-> <<>>,
                 hasModules |-> FALSE,
                 modules |-> <<>>,
                 planned |-> <<>>,
                 attempts |-> <<>>,
                 organised |-> FALSE,
                 lessonsWritten |-> FALSE,
                 hasSummary |-> FALSE,
                 lastMsg |-> "human",
                 llmFailed |-> FALSE,
                 error |-> "none",
                 result |-> "pending"]

CourseFrame ==
  UNCHANGED <<pc, query, goal, desired_focus, target_audience,
              search_queries, is_sufficient, documents, table, gi,
              response, respValid, searchLog, ingestLog, nCheck, nPlan,
              initialDocs, assessedDocs, docsAssessed, err, ing, hs,
              runs, call>>

course_knowledge_gatherer_node ==
  /\ course.pc = "course_knowledge_gatherer_node"
  /\ IF ~course.objective
     THEN course' = [course EXCEPT !.pc = course_edge(@),
                                   !.lastMsg = "need_objective"]
     ELSE \E rag \in RagOutcomes :
            IF rag.raised
            THEN course' = [course EXCEPT !.pc = "ERROR", !.rag = rag,
                                          !.ragCalled = TRUE,
                                          !.error = "retrieval"]
            ELSE course' = [course EXCEPT !.pc = course_edge(@), !.rag = rag,
                                          !.ragCalled = TRUE,
                                          !.hasKnowledge = TRUE,
                                          !.knowledge = rag.docs,
                                          !.lastMsg = "gathered"]
  /\ CourseFrame

\* if not state.get("objective") or not state.get("knowledge")
organizer_inputs_missing(c) == ~c.objective \/ c.knowledge = <<>>

module_organizer_node ==
  /\ course.pc = "module_organizer_node"
  /\ IF organizer_inputs_missing(course)
     THEN course' = [course EXCEPT !.pc = course_edge(@),
                                   !.lastMsg = "need_knowledge"]
     ELSE \E out \in OrganizerOutcomes :
            CASE out.kind = "raise" ->
                   course' = [course EXCEPT !.pc = course_edge(@),
                                            !.llmFailed = TRUE,
                                            !.lastMsg = "organizer_error"]
              [] out.kind = "nofield" ->
                   course' = [course EXCEPT !.pc = course_edge(@),
                                            !.llmFailed = TRUE,
                                            !.lastMsg = "modules_field_missing"]
              [] out.kind = "list" ->
                   course' = [course EXCEPT !.pc = course_edge(@),
                                            !.hasModules = TRUE,
                                            !.modules = out.modules,
                                            !.organised = TRUE,
                                            !.lastMsg = "organized"]
  /\ CourseFrame

RECURSIVE lesson_calls(_, _, _)
\* for module in modules: for lesson in module.lessons: the structured calls
\* made from module m on, in the order they are made, with what each did.
lesson_calls(modules, f, m) ==
  IF m > Len(modules) THEN <<>>
  ELSE [l \in DOMAIN modules[m] |-> [m |-> m, l |-> l, out |-> f[<<m, l>>]]]
         \o lesson_calls(modules, f, m + 1)

\* A lesson loop that is left at the first structured call that raises: the
\* lessons after it keep their planned state.
write_lessons_abort(modules, f) ==
  [m \in DOMAIN modules |->
     [l \in DOMAIN modules[m] |->
        IF \E c \in DOMAIN lesson_calls(modules, f, 1) :
              LET k == lesson_calls(modules, f, 1)[c]
              IN /\ k.out = "raise"
                 /\ (k.m < m \/ (k.m = m /\ k.l < l))
        THEN "planned"
        ELSE IF f[<<m, l>>] = "ok" THEN "written" ELSE "fallback"]]

\* The lessons of a module after the lesson loop, f telling what every
\* structured call did.
write_lessons(modules, f) ==
  [m \in DOMAIN modules |->
     [l \in DOMAIN modules[m] |->
        IF f[<<m, l>>] = "ok" THEN "written" ELSE "fallback"]]

lesson_writer ==
  /\ course.pc = "lesson_writer"
  /\ IF (~course.hasKnowledge \/ ~course.hasModules) /\ course.runtime = "omits"
     THEN course' = [course EXCEPT !.pc = "ERROR", !.error = "KeyError"]
     ELSE IF course.modules = <<>>
     THEN course' = [course EXCEPT !.pc = course_edge(@),
                                   !.lastMsg = "need_modules"]
     ELSE \E f \in LessonOutcomes :
            course' = [course EXCEPT
                         !.pc = course_edge(@),
                         !.modules = write_lessons(course.modules, f),
                         !.planned = course.modules,
                         !.attempts = lesson_calls(course.modules, f, 1),
                         !.hasModules = TRUE,
                         !.lessonsWritten = TRUE,
                         !.llmFailed =
                            @ \/ \E m \in DOMAIN course.modules :
                                   \E l \in DOMAIN course.modules[m] :
                                      f[<<m, l>>] = "raise"]
  /\ CourseFrame

finalize_course ==
  /\ course.pc = "finalize_course"
  /\ IF ~course.hasModules /\ course.runtime = "omits"
     THEN course' = [course EXCEPT !.pc = "ERROR", !.error = "KeyError"]
     ELSE \E llm \in {"ok", "raise"} :
            IF llm = "raise"
            THEN course' = [course EXCEPT !.pc = "ERROR", !.llmFailed = TRUE,
                                          !.error = "summary"]
            ELSE course' = [course EXCEPT !.pc = course_edge(@),
                                          !.hasSummary = TRUE]
  /\ CourseFrame

\* generate_course of app.py, after graph.invoke: an exception of the graph
\* is a critical error; the last message is an AIMessage, neither a tuple nor
\* a str, so the two tests for an agent error never fire; the PDF is built.
generate_course ==
  /\ course.pc \in {"END", "ERROR"}
  /\ IF course.pc = "ERROR"
     THEN course' = [course EXCEPT !.pc = "returned",
                                   !.result = "critical_error"]
     ELSE \E pdf \in {"ok", "raise"} :
            course' = [course EXCEPT
                         !.pc = "returned",
                         !.llmFailed = @ \/ pdf = "raise",
                         !.result = IF pdf = "ok" THEN "pdf" ELSE "critical_error"]
  /\ CourseFrame

NextCourse ==
  \/ course_knowledge_gatherer_node
  \/ module_organizer_node
  \/ lesson_writer
  \/ finalize_course
  \/ generate_course

SpecCourse == InitCourse /\ [][NextCourse]_vars

\* ------------------------------ one augmentation round, on its own
\* The state at the entry of gather_and_process_node, after a false verdict
\* and a gap-planning call that returned a list of up to MaxRoundQueries
\* queries (SearchQueries.queries is a List[str] of any length).
InitRound ==
  /\ pc = "gather_and_process"
  /\ query = <<"knives">>
  /\ goal = <<"teach">>
  /\ desired_focus = <<>>
  /\ target_audience = <<"beginner">>
  /\ \E n \in 0..MaxRoundQueries :
       search_queries = [isNone |-> FALSE, queries |-> [i \in 1..n |-> "gap1"]]
  /\ is_sufficient = "False"
  /\ documents = <<>>
  /\ table = 0
  /\ gi = 0
  /\ response = <<>>
  /\ respValid = FALSE
  /\ searchLog = <<[q |-> construct_rich_query(query, goal, desired_focus,
                                               target_audience).value,
                    k |-> InitialK, rpc |-> "data", docs |-> <<>>]>>
  /\ ingestLog = <<>>
  /\ nCheck = 1
  /\ nPlan = 1
  /\ initialDocs = <<>>
  /\ assessedDocs = <<>>
  /\ docsAssessed = TRUE
  /\ err = "none"
  /\ ing = NoIngest
  /\ hs = NoSearch
  /\ course = NoCourse
  /\ runs = NoRuns
  /\ call = NoCall

NextRound ==
  \/ gather_and_process_skip
  \/ gather_and_process_ingest
  \/ gather_and_process_retrieve

SpecRound == InitRound /\ [][NextRound]_vars

\* --------------------------------- two workflow runs sharing the one store
\* vector_rag.py builds one module-level manager (line 22); every
\* graph.invoke has a State of its own. The two runs take their steps in any
\* order; the table is the only thing they share. The store starts empty or
\* with MaxInitRows rows.
Runs == {1, 2}

\* The lists the gap planner may return in a two-run execution.
ConcPlannerOutcomes ==
  {[kind |-> "raise", queries |-> <<>>], [kind |-> "none", queries |-> <<>>]}
  \cup {[kind |-> "list", queries |-> [i \in 1..n |-> "gap1"]] :
          n \in 0..MaxConcQueries}

\* Two-run executions let every ingestion call find at most one search
\* result, of at most one chunk.
ConcSearchOutcomes == SearchOutcomes(1, 1)

\* What the judge's reply is parsed to, or the raise of the judge chain.
ConcVerdicts ==
  {"raise"} \cup {parse_sufficiency(o.text) : o \in {j \in JudgeOutcomes : j.kind = "text"}}

InitConc ==
  /\ pc = "two_runs"
  /\ query = <<>>
  /\ goal = <<>>
  /\ desired_focus = <<>>
  /\ target_audience = <<>>
  /\ search_queries = [isNone |-> TRUE, queries |-> <<>>]
  /\ is_sufficient = "unset"
  /\ documents = <<>>
  /\ table \in {0, MaxInitRows}
  /\ gi = 0
  /\ response = <<>>
  /\ respValid = FALSE
  /\ searchLog = <<>>
  /\ ingestLog = <<>>
  /\ nCheck = 0
  /\ nPlan = 0
  /\ initialDocs = <<>>
  /\ assessedDocs = <<>>
  /\ docsAssessed = FALSE
  /\ err = "none"
  /\ ing = NoIngest
  /\ hs = NoSearch
  /\ course = NoCourse
  /\ call = NoCall
  /\ runs = [r \in Runs |->
               [pc |-> "initial_retriever",
                query |-> IF r = 1 THEN <<"knives">> ELSE <<"forks">>,
                search_queries |-> [isNone |-> TRUE, queries |-> <<>>],
                is_sufficient |-> "unset",
                documents |-> <<>>,
                gi |-> 0]]

ConcFrame ==
  UNCHANGED <<pc, query, goal, desired_focus, target_audience,
              search_queries, is_sufficient, documents, gi, response,
              respValid, searchLog, ingestLog, nCheck, nPlan, initialDocs,
              assessedDocs, docsAssessed, err, ing, hs, course, call>>

\* An update that is written to a state all runs share.
merge_update_shared(rs, r, upd) == [o \in DOMAIN rs |-> upd]

\* The graph runtime merges the update a node returns into the State of the
\* run the node ran for.
merge_update(rs, r, upd) == [rs EXCEPT ![r] = upd]

conc_initial_retrieve(r) ==
  /\ runs[r].pc = "initial_retriever"
  /\ LET rq == construct_rich_query(runs[r].query, <<"teach">>, <<>>, <<"beginner">>)
     IN \E rpc \in RpcOutcomes(table, InitialK) :
          LET res == perform_hybrid_search(rq.value, InitialK, rpc)
          IN runs' = merge_update(runs, r,
                       IF rq.raised \/ res.raised
                       THEN [runs[r] EXCEPT !.pc = "ERROR"]
                       ELSE [runs[r] EXCEPT !.pc = workflow_edge("initial_retriever"),
                                            !.documents = res.docs])
  /\ table' = table
  /\ ConcFrame

conc_check_sufficiency(r) ==
  /\ runs[r].pc = "check_sufficiency"
  /\ \E v \in IF no_documents(runs[r].documents) THEN {"False"} ELSE ConcVerdicts :
       runs' = merge_update(runs, r,
                 IF v = "raise"
                 THEN [runs[r] EXCEPT !.pc = "ERROR"]
                 ELSE [runs[r] EXCEPT !.pc = decide_to_augment_or_answer(v),
                                      !.is_sufficient = v])
  /\ table' = table
  /\ ConcFrame

conc_knowledge_planner(r) ==
  /\ runs[r].pc = "plan_knowledge_augmentation"
  /\ \E out \in ConcPlannerOutcomes :
       runs' = merge_update(runs, r,
                 IF out.kind = "raise"
                 THEN [runs[r] EXCEPT !.pc = "ERROR"]
                 ELSE [runs[r] EXCEPT
                         !.pc = workflow_edge("plan_knowledge_augmentation"),
                         !.search_queries = [isNone |-> out.kind = "none",
                                             queries |-> out.queries]])
  /\ table' = table
  /\ ConcFrame

conc_gather_skip(r) ==
  /\ runs[r].pc = "gather_and_process"
  /\ runs[r].gi = 0
  /\ IF runs[r].search_queries.isNone
     THEN runs' = merge_update(runs, r, [runs[r] EXCEPT !.pc = "ERROR"])
     ELSE /\ no_queries_planned(runs[r].search_queries)
          /\ runs' = merge_update(runs, r,
                       [runs[r] EXCEPT !.pc = workflow_edge("gather_and_process")])
  /\ table' = table
  /\ ConcFrame

conc_gather_ingest(r) ==
  /\ runs[r].pc = "gather_and_process"
  /\ ~runs[r].search_queries.isNone
  /\ ~no_queries_planned(runs[r].search_queries)
  /\ ~all_queries_ingested(runs[r].gi, runs[r].search_queries.queries)
  /\ runs[r].gi < Len(runs[r].search_queries.queries)
  /\ \E search \in ConcSearchOutcomes, upsert \in UpsertOutcomes :
       LET res == create_documents_from_search(
                    runs[r].search_queries.queries[runs[r].gi + 1],
                    search, upsert, table)
       IN /\ table' = res.table
          /\ runs' = merge_update(runs, r,
                       IF res.raised
                       THEN [runs[r] EXCEPT !.pc = "ERROR"]
                       ELSE [runs[r] EXCEPT !.gi = @ + 1])
  /\ ConcFrame

conc_gather_retrieve(r) ==
  /\ runs[r].pc = "gather_and_process"
  /\ ~runs[r].search_queries.isNone
  /\ ~no_queries_planned(runs[r].search_queries)
  /\ all_queries_ingested(runs[r].gi, runs[r].search_queries.queries)
  /\ \E rpc \in RpcOutcomes(table, AugmentK) :
       LET res == perform_hybrid_search(runs[r].query, AugmentK, rpc)
       IN runs' = merge_update(runs, r,
                    IF res.raised
                    THEN [runs[r] EXCEPT !.pc = "ERROR"]
                    ELSE [runs[r] EXCEPT !.pc = workflow_edge("gather_and_process"),
                                         !.documents = res.docs,
                                         !.gi = 0])
  /\ table' = table
  /\ ConcFrame

\* One node of run r runs.
conc_step(r) ==
  \/ conc_initial_retrieve(r)
  \/ conc_check_sufficiency(r)
  \/ conc_knowledge_planner(r)
  \/ conc_gather_skip(r)
  \/ conc_gather_ingest(r)
  \/ conc_gather_retrieve(r)

NextConc == \E r \in Runs : conc_step(r)

SpecConc == InitConc /\ [][NextConc]_vars

\* Each run's graph runtime runs the run's next node whenever there is one.
FairConc == SpecConc /\ \A r \in Runs : WF_vars(conc_step(r))

\* ------------------------------------------- the user-intent router, alone
RouteTokens == {"assistant", "analyze_user_input", "Assistant", " ", THINK}

\* result.content of llm_decider.invoke
RouteOutputs == SeqsUpTo(RouteTokens, MaxRouteLen)

\* A router that takes the course route as soon as its label occurs anywhere.
is_user_want_make_a_course_loose(raw_output) ==
  IF Contains(raw_output, "analyze_user_input")
  THEN "analyze_user_input" ELSE "assistant"

\* is_user_want_make_a_course, from the decider's output to the route
is_user_want_make_a_course(raw_output) ==
  LET label(t) == IF t = <<"assistant">> THEN "assistant"
                  ELSE IF t = <<"analyze_user_input">> THEN "analyze_user_input"
                  ELSE "None"
      afterThink ==
        IF Contains(raw_output, THINK)
        THEN LET parts == split(raw_output, THINK)
             IN IF Len(parts) > 1 THEN label(strip(parts[Len(parts)])) ELSE "None"
        ELSE "None"
      decision_word ==
        IF afterThink = "None" THEN label(strip(raw_output)) ELSE afterThink
  IN IF decision_word # "None" THEN decision_word ELSE "assistant"

IsolatedFrame ==
  UNCHANGED <<pc, query, goal, desired_focus, target_audience,
              search_queries, is_sufficient, documents, table, gi,
              response, respValid, searchLog, ingestLog, nCheck, nPlan,
              initialDocs, assessedDocs, docsAssessed, err, ing, hs, course,
              runs>>

IsolatedInit ==
  /\ query = <<>>
  /\ goal = <<>>
  /\ desired_focus = <<>>
  /\ target_audience = <<>>
  /\ search_queries = [isNone |-> TRUE, queries |-> <<>>]
  /\ is_sufficient = "unset"
  /\ documents = <<>>
  /\ table = 0
  /\ gi = 0
  /\ response = <<>>
  /\ respValid = FALSE
  /\ searchLog = <<>>
  /\ ingestLog = <<>>
  /\ nCheck = 0
  /\ nPlan = 0
  /\ initialDocs = <<>>
  /\ assessedDocs = <<>>
  /\ docsAssessed = FALSE
  /\ err = "none"
  /\ ing = NoIngest
  /\ hs = NoSearch
  /\ course = NoCourse
  /\ runs = NoRuns

InitRoute ==
  /\ pc = "route_only"
  /\ IsolatedInit
  /\ \E raw \in RouteOutputs :
       call = [phase |-> "call", raw_output |-> raw, route |-> "none",
               again |-> "none"]

\* The router is asked about the decider's output, and asked once more about
\* the same output.
route_call ==
  /\ call.phase \in {"call", "returned"}
  /\ call' = IF call.phase = "call"
             THEN [call EXCEPT !.phase = "returned",
                               !.route = is_user_want_make_a_course(call.raw_output)]
             ELSE [call EXCEPT !.phase = "returned_twice",
                               !.again = is_user_want_make_a_course(call.raw_output)]
  /\ IsolatedFrame

NextRoute == route_call

SpecRoute == InitRoute /\ [][NextRoute]_vars

\* ------------------------------------------ LaTeX escaping of app.py, alone
\* Text is a sequence of characters here; the name of a LaTeX command
\* (letters only, which no replacement looks for) is kept as one token.
BACKSLASH == "\\"

\* replacements, in the order of the dict
SpecialChars == <<BACKSLASH, "&", "%", "$", "#", "_", "{", "}", "~", "^">>

replacements(c) ==
  CASE c = BACKSLASH -> <<BACKSLASH, "textbackslash", "{", "}">>
    [] c = "~" -> <<BACKSLASH, "textasciitilde", "{", "}">>
    [] c = "^" -> <<BACKSLASH, "textasciicircum", "{", "}">>
    [] OTHER -> <<BACKSLASH, c>>

EscapeChars == {SpecialChars[i] : i \in DOMAIN SpecialChars} \cup {"a"}

RECURSIVE replace(_, _, _)
\* str.replace(old, new), old one character
replace(s, old, new) ==
  IF s = <<>> THEN <<>>
  ELSE (IF Head(s) = old THEN new ELSE <<Head(s)>>) \o replace(Tail(s), old, new)

RECURSIVE replace_from(_, _)
\* for char, escaped in replacements.items(): entries i.. of the dict
replace_from(text, i) ==
  IF i > Len(SpecialChars) THEN text
  ELSE replace_from(
         IF SpecialChars[i] # BACKSLASH
         THEN replace(text, SpecialChars[i], replacements(SpecialChars[i]))
         ELSE text,
         i + 1)

_escape_latex_special_chars(text) ==
  replace_from(replace(text, BACKSLASH, replacements(BACKSLASH)), 1)

InitEscape ==
  /\ pc = "escape_only"
  /\ IsolatedInit
  /\ \E text \in SeqsUpTo(EscapeChars, MaxTextLen) :
       call = [phase |-> "call", text |-> text, out |-> <<>>]

escape_call ==
  /\ call.phase = "call"
  /\ call' = [call EXCEPT !.phase = "returned",
                          !.out = _escape_latex_special_chars(call.text)]
  /\ IsolatedFrame

NextEscape == escape_call

SpecEscape == InitEscape /\ [][NextEscape]_vars

\* --------------------------------------- the sources section of app.py, alone
\* A url is a sequence of characters and words; NoUrl stands for a metadata
\* dict without a url (metadata.get('url') is None).
NoUrl == <<"None">>

Urls ==
  {NoUrl,
   <<"n", "/", "a">>,
   <<"N", "/", "A", " ">>,
   <<"unknown">>,
   <<"http:", "/", "/", "x.org">>}

\* A document of the knowledge list: with metadata and a url, or an object
\* without metadata.
SourceDocs ==
  {[is_list |-> FALSE, has_metadata |-> FALSE, url |-> NoUrl, docs |-> <<>>]}
  \cup {[is_list |-> FALSE, has_metadata |-> TRUE, url |-> u, docs |-> <<>>] :
          u \in Urls}

\* An item of the knowledge list: a document, or a list of documents.
KnowledgeItems ==
  SourceDocs
  \cup {[is_list |-> TRUE, has_metadata |-> FALSE, url |-> NoUrl, docs |-> l] :
          l \in SeqsUpTo(SourceDocs, MaxNestedLen)}

\* str.lower(), on the characters of a url
LowerChar(c) ==
  CASE c = "N" -> "n"
    [] c = "A" -> "a"
    [] OTHER -> c

\* str.translate(translation_table): the double quote, the slash, the two
\* square brackets and the backtick are taken out
translate(s) ==
  SelectSeq(s, LAMBDA c : c \notin {"dquote", "/", "[", "]", "backtick"})

\* the set the normalised url is looked up in (the entries the urls of the
\* model can meet)
placeholder_set == {<<"n", "/", "a">>, <<"unknown">>, <<>>}

\* if url and url.lower().translate(translation_table).strip() not in {...}
is_source_url(url) ==
  /\ url # NoUrl
  /\ url # <<>>
  /\ strip(translate([i \in DOMAIN url |-> LowerChar(url[i])])) \notin placeholder_set

RECURSIVE flatten(_)
\* for item in knowledge_list: extend with a list, append anything else
flatten(knowledge_list) ==
  IF knowledge_list = <<>> THEN <<>>
  ELSE (IF Head(knowledge_list).is_list THEN Head(knowledge_list).docs
        ELSE <<Head(knowledge_list)>>) \o flatten(Tail(knowledge_list))

\* _generate_sources: the lines it appends and the sources it extracts
_generate_sources(knowledge_list) ==
  IF knowledge_list = <<>>
  THEN [header |-> FALSE, links |-> <<>>, none_line |-> FALSE, extracted_sources |-> <<>>]
  ELSE LET found == SelectSeq(flatten(knowledge_list),
                              LAMBDA d : d.has_metadata /\ is_source_url(d.url))
           urls == [i \in DOMAIN found |-> found[i].url]
       IN [header |-> TRUE, links |-> urls, none_line |-> urls = <<>>,
           extracted_sources |-> urls]

InitSources ==
  /\ pc = "sources_only"
  /\ IsolatedInit
  /\ \E k \in SeqsUpTo(KnowledgeItems, MaxKnowledgeItems) :
       call = [phase |-> "call", knowledge |-> k,
               out |-> [header |-> FALSE, links |-> <<>>, none_line |-> FALSE,
                        extracted_sources |-> <<>>]]

sources_call ==
  /\ call.phase = "call"
  /\ call' = [call EXCEPT !.phase = "returned",
                          !.out = _generate_sources(call.knowledge)]
  /\ IsolatedFrame

NextSources == sources_call

SpecSources == InitSources /\ [][NextSources]_vars

\* ------------------------------------- the first node of a run, on its own
\* graph.invoke with any of the four texts empty or not.
InitFirst ==
  /\ pc = "initial_retriever"
  /\ query \in {<<>>, <<"knives">>}
  /\ goal \in {<<>>, <<"teach">>}
  /\ desired_focus \in {<<>>, <<"technical">>}
  /\ target_audience \in {<<>>, <<"beginner">>}
  /\ search_queries = [isNone |-> TRUE, queries |-> <<>>]
  /\ is_sufficient = "unset"
  /\ documents = <<>>
  /\ table \in 0..MaxInitRows
  /\ gi = 0
  /\ response = <<>>
  /\ respValid = FALSE
  /\ searchLog = <<>>
  /\ ingestLog = <<>>
  /\ nCheck = 0
  /\ nPlan = 0
  /\ initialDocs = <<>>
  /\ assessedDocs = <<>>
  /\ docsAssessed = FALSE
  /\ err = "none"
  /\ ing = NoIngest
  /\ hs = NoSearch
  /\ course = NoCourse
  /\ runs = NoRuns
  /\ call = NoCall

NextFirst == initial_retrieve_node

SpecFirst == InitFirst /\ [][NextFirst]_vars

\* ------------------------- the store's writers: the call and the workflow
\* Every client of the table that the retrieval side has: one ingestion
\* call on its own, or a run of the workflow, whose gather_and_process node
\* is the only node that writes.
InitStore == InitIngest \/ Init

NextStore ==
  \/ ingest_call
  \/ initial_retrieve_node
  \/ check_sufficiency_node
  \/ knowledge_planner_node
  \/ gather_and_process_skip
  \/ gather_and_process_ingest
  \/ gather_and_process_retrieve

SpecStore == InitStore /\ [][NextStore]_vars

\* ================================================================ claims
Range(s) == {s[i] : i \in DOMAIN s}

Augmented == ~search_queries.isNone /\ search_queries.queries # <<>>

\* C1: every run ends, and it ends within one augmentation round: the
\* sufficiency check runs at most once, the store is searched at most twice
\* and at most one ingestion call is made per planned gap query, whatever the
\* judge and the gap planner answer.
C1_TerminatesWithinCap ==
  /\ [](/\ nCheck <= 1
        /\ nPlan <= 1
        /\ Len(searchLog) <= 2
        /\ Len(ingestLog) <= Len(search_queries.queries))
  /\ <>(pc \in Ended)

\* C1 witness: the judge answered false, the planner gave queries, every one
\* of them was ingested and the run is over.
C1_Witness ==
  /\ pc = "END"
  /\ is_sufficient = "False"
  /\ Augmented
  /\ Len(ingestLog) = Len(search_queries.queries)
  /\ Len(searchLog) = 2

C3_Monotonic == [][Len(documents') >= Len(documents)]_vars

\* C4: when the sufficiency check answers true the run is over at once: one
\* hybrid search, one check, no gap planning, no ingestion call, and the
\* documents are those of the first retrieval.
C4_SufficientFirstPass ==
  is_sufficient = "True" =>
    /\ pc = "END"
    /\ nCheck = 1
    /\ nPlan = 0
    /\ Len(searchLog) = 1
    /\ searchLog[1].k = InitialK
    /\ ingestLog = <<>>
    /\ documents = initialDocs
    /\ table \in 0..MaxInitRows

\* C4 witness: a run ended on a true verdict over a non-empty retrieval.
C4_Witness ==
  /\ pc = "END"
  /\ is_sufficient = "True"
  /\ documents # <<>>
  /\ respValid

\* C5: once the gap planner has returned an empty list, nothing is ingested,
\* the store is not searched again, the documents stay those held before
\* planning, and the only node left to run is the one that ends the run.
C5_EmptyPlanEnds ==
  (nPlan >= 1 /\ ~search_queries.isNone /\ search_queries.queries = <<>>) =>
    /\ pc \in {"gather_and_process", "END"}
    /\ ingestLog = <<>>
    /\ Len(searchLog) = 1
    /\ documents = assessedDocs
    /\ documents = initialDocs
    /\ err = "none"

\* C5 witness: a run over non-empty documents ended on an empty plan.
C5_Witness ==
  /\ pc = "END"
  /\ nPlan = 1
  /\ ~search_queries.isNone
  /\ search_queries.queries = <<>>
  /\ documents # <<>>

\* The judge's final answer: the text after the last closing think tag (the
\* whole reply when there is none), trimmed and lower-cased.
FinalAnswer(resp) ==
  LET tags == {i \in DOMAIN resp : resp[i] = THINK}
      from == IF tags = {} THEN 1
              ELSE 1 + CHOOSE i \in tags : \A j \in tags : j <= i
  IN lower(strip(SubSeq(resp, from, Len(resp))))

Recognisable(resp) == FinalAnswer(resp) \in {<<"true">>, <<"false">>}

C7_Original ==
  /\ (pc \in Ended /\ nCheck >= 1 /\ is_sufficient = "False") => pc = "END"
  /\ (pc = "END" /\ is_sufficient = "True") =>
        (docsAssessed /\ documents = assessedDocs)

\* C8 as stated: the hybrid search made after augmentation is given the
\* query the initial hybrid search was given.
C8_SameQuery == Len(searchLog) >= 2 => searchLog[2].q = searchLog[1].q

\* C9 as stated: an ingestion call that raises does not end the run with an
\* error; once the run is over every planned gap query has been passed to
\* an ingestion call and the store has been searched again.
C9_IngestFailureSkipped ==
  (\E i \in DOMAIN ingestLog : ingestLog[i].raised) =>
     /\ pc # "ERROR"
     /\ pc = "END" =>
          /\ Len(ingestLog) = Len(search_queries.queries)
          /\ Len(searchLog) = 2

\* Chunks of the search results of the isolated call: all of them, and the
\* ones whose refinement and embedding both succeed.
AllChunks ==
  UNION {{<<r, c>> : c \in DOMAIN ing.search.results[r].chunks} :
           r \in {x \in DOMAIN ing.search.results :
                    ing.search.results[x].has_content}}

OkChunks ==
  {rc \in AllChunks : ing.search.results[rc[1]].chunks[rc[2]] = "ok"}

Before(a, b) == a[1] < b[1] \/ (a[1] = b[1] /\ a[2] < b[2])

\* Every search result of the isolated call has text (or no) content.
AllText ==
  \A r \in DOMAIN ing.search.results : ing.search.results[r].is_str

\* C10: in one ingestion call whose search returned results, all of them
\* with text content, every chunk of
\* every result is tried whatever happens to the others, the rows handed to
\* the store are exactly the chunks that were refined and embedded, in
\* order, a failing chunk never makes the call raise (only the store's
\* upsert can), and when the store returns the rows the call returns one id
\* per successful chunk.
C10_ChunkFailureSkipped ==
  (/\ ing.phase \in {"returned", "raised"}
   /\ ing.search.kind = "results"
   /\ AllText) =>
    /\ Range(ing.out.tried) = AllChunks
    /\ Len(ing.out.tried) = Cardinality(AllChunks)
    /\ Range(ing.out.rows) = OkChunks
    /\ Len(ing.out.rows) = Cardinality(OkChunks)
    /\ \A i, j \in DOMAIN ing.out.rows :
          i < j => Before(ing.out.rows[i], ing.out.rows[j])
    /\ ing.phase = "raised" => (ing.upsert = "raise" /\ OkChunks # {})
    /\ ing.upsert = "ok" =>
          /\ ing.phase = "returned"
          /\ Len(ing.out.ret) = Cardinality(OkChunks)
          /\ table = ing.table0 + Cardinality(OkChunks)

\* C10 witness: one of five chunks failed and the call returned four ids.
C10_Witness ==
  /\ ing.phase = "returned"
  /\ AllText
  /\ Cardinality(AllChunks) = 5
  /\ Cardinality(OkChunks) = 4
  /\ Len(ing.out.ret) = 4
  /\ \E rc \in AllChunks \ OkChunks : \E ok \in OkChunks : Before(rc, ok)

\* C11: an ingestion call whose web search finds no result at all returns
\* the empty list of ids: it does not raise, it tries no chunk, it does not
\* call the store and the table is left as it was, whatever the store would
\* have done had it been called.
C11_NoResultsNoWrite ==
  (/\ ing.phase \in {"returned", "raised"}
   /\ ing.search.kind = "results"
   /\ ing.search.results = <<>>) =>
    /\ ing.phase = "returned"
    /\ ing.out.ret = <<>>
    /\ ing.out.tried = <<>>
    /\ ~ing.out.upserted
    /\ table = ing.table0

\* C11 witness: the call has returned after a search without results, with
\* a store that raises when it is called.
C11_Witness ==
  /\ ing.phase = "returned"
  /\ ing.search.kind = "results"
  /\ ing.search.results = <<>>
  /\ ing.upsert = "raise"
  /\ ing.out.ret = <<>>

\* C12: a hybrid search tells "nothing matched" from "the call failed": when
\* the ranking answers without any row the call returns the empty list and
\* raises nothing, and when embedding the query or the ranking call fails,
\* be it by raising or by answering with an error, the call surfaces an
\* error to its caller instead of returning an empty list.
C12_FailureSurfaces ==
  (hs.phase \in {"returned", "raised"}) =>
    /\ (hs.rpc.kind = "data" /\ hs.rpc.rows = <<>>) =>
          (hs.phase = "returned" /\ hs.out.docs = <<>>)
    /\ hs.rpc.kind \in {"raise_embed", "raise_rpc", "error"} =>
          hs.phase = "raised"

C14_ImperfectRetrievalServed ==
  (/\ course.pc = "returned"
   /\ course.ragCalled
   /\ ~course.rag.raised
   /\ ~course.llmFailed
   /\ (course.rag.docs = <<>> \/ course.rag.is_sufficient = "False")) =>
    /\ course.result = "pdf"
    /\ course.organised
    /\ course.modules # <<>> => course.lessonsWritten
    /\ course.hasSummary

\* The gap-planning call failed: it raised, or it yielded no query list.
PlannerFailed == nPlan >= 1 /\ (err = "planner" \/ search_queries.isNone)

\* C15: a gap-planning call that fails or yields a malformed answer does not
\* abort the run: the run goes on as with an empty query list and ends
\* normally, without any ingestion call and with the documents it had.
C15_PlannerFailureRecovered ==
  PlannerFailed =>
    /\ pc # "ERROR"
    /\ ingestLog = <<>>
    /\ pc = "END" => documents = initialDocs

\* The kinds of failure of a hybrid search: embedding the query raises, the
\* ranking call raises, the ranking call answers with an error.
FailedSearch == {"raise_embed", "raise_rpc", "error"}

\* C16: a retrieval whose embedding or ranking call failed counts as an
\* empty result: the run does not end in an error because of it, the failed
\* call contributes no document, and after a failed first retrieval the
\* sufficiency check is what runs next.
C16_FailedRetrievalIsEmpty ==
  \A i \in DOMAIN searchLog :
    searchLog[i].rpc \in FailedSearch =>
      /\ err # "search"
      /\ searchLog[i].docs = <<>>
      /\ (i = 1 /\ nCheck = 0) => pc = "check_sufficiency"

\* C17: whatever list the gap-planning call returns, one augmentation round
\* makes at most 5 ingestion calls.
C17_AtMostFiveIngests == Len(ingestLog) <= 5

\* C18: the store is searched again after an ingestion round, and only once
\* every planned query's ingestion call has returned, in list order; the
\* documents of a run that ended normally are what its last hybrid search
\* returned.
C18_RequeryAfterIngestion ==
  /\ Len(searchLog) = 2 =>
        /\ Len(ingestLog) = Len(search_queries.queries)
        /\ \A i \in DOMAIN ingestLog :
              /\ ~ingestLog[i].raised
              /\ ingestLog[i].q = search_queries.queries[i]
  /\ (pc = "END" /\ Augmented) => Len(searchLog) = 2
  /\ pc = "END" =>
        /\ searchLog # <<>>
        /\ documents = searchLog[Len(searchLog)].docs

\* C18 witness: a run ended after ingesting two gap queries and searching
\* again, and the second search returned more than the first.
C18_Witness ==
  /\ pc = "END"
  /\ Len(search_queries.queries) = 2
  /\ Len(ingestLog) = 2
  /\ Len(searchLog) = 2
  /\ Len(documents) > Len(initialDocs)

\* C19: a step of the sufficiency check changes nothing but the verdict:
\* the documents, the query, the goal, the focus, the audience and the
\* planned search queries are what they were, and the store's table has not
\* been written.
C19_CheckOnlySetsVerdict ==
  [][pc = "check_sufficiency" =>
       UNCHANGED <<documents, query, goal, desired_focus, target_audience,
                   search_queries, table>>]_vars

\* C19 witness: the judge was consulted about a non-empty document list and
\* answered false, and those documents are still the run's documents.
C19_Witness ==
  /\ nCheck = 1
  /\ respValid
  /\ is_sufficient = "False"
  /\ documents # <<>>
  /\ documents = assessedDocs
  /\ pc = "plan_knowledge_augmentation"

C21_NonStringContentTolerated ==
  (/\ ing.phase \in {"returned", "raised"}
   /\ ing.search.kind = "results"
   /\ ~AllText) =>
    /\ Range(ing.out.tried) = AllChunks
    /\ ing.phase = "raised" => ing.upsert = "raise"

\* C22: of two runs interleaved on the same store, a run that has not ended
\* can always take its next step whatever the other run is doing (nothing
\* waits, nothing deadlocks), a step changes the documents, the planned
\* queries and the verdict of at most one run (the other run's State is as it
\* was; only the table is shared), and both runs end.
C22_RunsIndependent ==
  /\ [](\A r \in Runs : runs[r].pc \notin Ended => ENABLED conc_step(r))
  /\ [][\E r \in Runs : \A o \in Runs \ {r} : runs'[o] = runs[o]]_vars
  /\ <>(\A r \in Runs : runs[r].pc \in Ended)

\* C22 witness: both runs ended normally after an augmentation round each,
\* on a store that holds rows, the first with documents and the second
\* without any.
C22_Witness ==
  /\ \A r \in Runs :
        /\ runs[r].pc = "END"
        /\ runs[r].is_sufficient = "False"
        /\ runs[r].search_queries.queries # <<>>
  /\ runs[1].documents # <<>>
  /\ runs[2].documents = <<>>
  /\ table > 0

\* What the decider said once the text up to the last closing think tag and
\* the surrounding whitespace are removed.
RouteAnswer(raw) ==
  LET tags == {i \in DOMAIN raw : raw[i] = THINK}
      from == IF tags = {} THEN 1
              ELSE 1 + CHOOSE i \in tags : \A j \in tags : j <= i
  IN strip(SubSeq(raw, from, Len(raw)))

\* C23: for every output of the decider the router returns one of the two
\* routes; it returns the route the output names when the output, without
\* the text up to a closing think tag and without surrounding whitespace, is
\* exactly one of the two labels, and the default route assistant otherwise;
\* asked again about the same output it returns the same route.
C23_RouterClosedWithDefault ==
  (call.phase \in {"returned", "returned_twice"}) =>
    /\ call.route \in {"assistant", "analyze_user_input"}
    /\ RouteAnswer(call.raw_output) = <<"analyze_user_input">> =>
          call.route = "analyze_user_input"
    /\ RouteAnswer(call.raw_output) = <<"assistant">> =>
          call.route = "assistant"
    /\ RouteAnswer(call.raw_output) \notin
          {<<"assistant">>, <<"analyze_user_input">>} =>
          call.route = "assistant"
    /\ call.phase = "returned_twice" => call.again = call.route

\* C23 witness: an output that names the course route only before its think
\* tag, and in the wrong case after it, got the default route, twice.
C23_Witness ==
  /\ call.phase = "returned_twice"
  /\ call.raw_output = <<"analyze_user_input", THINK, "Assistant">>
  /\ call.route = "assistant"
  /\ call.again = "assistant"

RECURSIVE EscapedOnce(_)
\* Every character replaced on its own by its entry of the table.
EscapedOnce(text) ==
  IF text = <<>> THEN <<>>
  ELSE (IF \E i \in DOMAIN SpecialChars : SpecialChars[i] = Head(text)
        THEN replacements(Head(text)) ELSE <<Head(text)>>)
       \o EscapedOnce(Tail(text))

\* C24: the escaped text is the input with every special character replaced
\* once, each on its own, by its entry of the replacement table, the other
\* characters as they were: no character a replacement brought in is escaped
\* again.
C24_EscapedExactlyOnce ==
  call.phase = "returned" => call.out = EscapedOnce(call.text)

\* A url that stands for "no url": one of the placeholder values, whatever
\* its case and the whitespace around it.
IsPlaceholderUrl(url) ==
  strip([i \in DOMAIN url |-> LowerChar(url[i])]) \in placeholder_set

\* The urls the sources section is to cite: the url of every document of the
\* flattened list that has one which is not a placeholder, in order.
CitedUrls(knowledge) ==
  LET docs == SelectSeq(flatten(knowledge),
                        LAMBDA d : /\ d.has_metadata
                                   /\ d.url # NoUrl
                                   /\ ~IsPlaceholderUrl(d.url))
  IN [i \in DOMAIN docs |-> docs[i].url]

\* C25: for a knowledge list that is not empty, documents inside a nested
\* list count like the others, one source is extracted for every document
\* whose url is present and is not a placeholder such as n/a or unknown, in
\* document order, and when there is no such document the one line saying
\* that no source was cited is written and no source is extracted.
C25_SourcesExtracted ==
  (call.phase = "returned" /\ call.knowledge # <<>>) =>
    /\ call.out.extracted_sources = CitedUrls(call.knowledge)
    /\ call.out.links = CitedUrls(call.knowledge)
    /\ call.out.none_line <=> CitedUrls(call.knowledge) = <<>>

\* The sentence about one argument, or nothing when the argument is empty.
Sentence(before, arg, after) ==
  IF arg = <<>> THEN <<>> ELSE <<" ", before>> \o arg \o <<after>>

\* C26: the first node fails with a ValueError, before the store is
\* searched, exactly when the core query is empty; otherwise the text it
\* searches the store for is the sentence about the core query followed by
\* the sentences about the goal, the desired focus and the target audience,
\* in that order, each one there exactly when its argument is not empty.
C26_RichQueryShape ==
  pc # "initial_retriever" =>
    IF query = <<>>
    THEN /\ pc = "ERROR"
         /\ err = "ValueError"
         /\ searchLog = <<>>
    ELSE /\ err # "ValueError"
         /\ Len(searchLog) = 1
         /\ searchLog[1].q =
              <<"The user is searching for information about: '">>
              \o query \o <<"'.">>
              \o Sentence("The main goal is to ", goal, ".")
              \o Sentence("The search results should have a strong '",
                          desired_focus, "' focus.")
              \o Sentence("The content is intended for a '",
                          target_audience, "' audience.")

\* C26 witness: a query with a focus and an audience but no goal was
\* searched for.
C26_Witness ==
  /\ pc = "check_sufficiency"
  /\ query # <<>>
  /\ goal = <<>>
  /\ desired_focus # <<>>
  /\ target_audience # <<>>
  /\ Len(searchLog) = 1
  /\ Len(searchLog[1].q) = 11

\* C27: no node of the workflow runs twice in a run: there is at most one
\* sufficiency check, at most one gap-planning call and at most two hybrid
\* searches (the second one only after gap planning), and ingestion calls are
\* made only after a false verdict and a gap-planning call, one for each
\* planned query, in the order of the list.
C27_EachNodeAtMostOnce ==
  /\ nCheck <= 1
  /\ nPlan <= 1
  /\ nPlan <= nCheck
  /\ Len(searchLog) <= 2
  /\ Len(searchLog) = 2 => nPlan = 1
  /\ ingestLog # <<>> =>
        /\ is_sufficient = "False"
        /\ nPlan = 1
        /\ Len(ingestLog) <= Len(search_queries.queries)
        /\ \A i \in DOMAIN ingestLog :
              ingestLog[i].q = search_queries.queries[i]
  /\ (pc = "END" /\ is_sufficient = "False" /\ ~search_queries.isNone) =>
        Len(ingestLog) = Len(search_queries.queries)

\* C27 witness: a run ended after one check, one gap-planning call, two
\* ingestion calls for two different planned queries and two searches.
C27_Witness ==
  /\ pc = "END"
  /\ nCheck = 1
  /\ nPlan = 1
  /\ Len(searchLog) = 2
  /\ Len(ingestLog) = 2
  /\ ingestLog[1].q # ingestLog[2].q

\* C28: right after the sufficiency check, the verdict is true exactly when
\* the documents were non-empty and the judge's reply, trimmed and
\* lower-cased, is the single word true, as a whole or as the text after the
\* last closing think tag; in every other case the verdict is false and the
\* next node is gap planning, and a true verdict ends the run.
C28_VerdictIffExactTrue ==
  (nCheck = 1 /\ nPlan = 0 /\ pc \in {"END", "plan_knowledge_augmentation"}) =>
    LET saysTrue == /\ assessedDocs # <<>>
                    /\ respValid
                    /\ \/ lower(strip(response)) = <<"true">>
                       \/ FinalAnswer(response) = <<"true">>
    IN /\ is_sufficient = (IF saysTrue THEN "True" ELSE "False")
       /\ pc = (IF saysTrue THEN "END" ELSE "plan_knowledge_augmentation")

\* C28 witness: a reply with reasoning, a closing think tag and an upper-case
\* TRUE after it was judged sufficient; the run is over.
C28_Witness ==
  /\ nCheck = 1
  /\ nPlan = 0
  /\ pc = "END"
  /\ is_sufficient = "True"
  /\ Len(response) = 3
  /\ response[2] = THINK
  /\ response[3] = "TRUE"

\* C29: an ingestion call hands rows to the store at most once, and only
\* after every chunk of every search result has been tried; the batch holds
\* exactly the chunks that were refined and embedded, in order; a call in
\* which no chunk succeeded does not call the store; a call that did not
\* write leaves the table as it was; and no step of an ingestion call or of
\* a workflow run ever makes the table smaller.
C29_SingleBatchWrite ==
  /\ [](ing.phase \in {"returned", "raised"} =>
          /\ ing.out.upserted =>
                /\ ing.search.kind = "results"
                /\ Range(ing.out.tried) = AllChunks
                /\ Range(ing.out.rows) = OkChunks
                /\ Len(ing.out.rows) = Cardinality(OkChunks)
                /\ OkChunks # {}
                /\ table \in {ing.table0, ing.table0 + Len(ing.out.rows)}
          /\ ~ing.out.upserted => table = ing.table0
          /\ (ing.search.kind = "results" /\ OkChunks = {}) => ~ing.out.upserted)
  /\ [][table' >= table]_vars

\* C29 witness: a call over two results with four chunks, two of which
\* failed, wrote the two others in one batch.
C29_Witness ==
  /\ ing.phase = "returned"
  /\ ing.out.upserted
  /\ Len(ing.search.results) = 2
  /\ Cardinality(AllChunks) = 4
  /\ Cardinality(OkChunks) = 2
  /\ table = ing.table0 + 2

\* The lessons of the module list the lesson loop was given, module by
\* module and lesson by lesson.
PlannedLessons ==
  UNION {{<<m, l>> : l \in DOMAIN course.planned[m]} :
           m \in DOMAIN course.planned}

\* C30: once lesson_writer has run over a non-empty module list, one
\* structured call was made for every lesson of every module and for
\* nothing else, in module order and lesson order; a lesson whose call
\* raised holds the fallback fields, every other lesson holds the generated
\* fields, whatever happened to the lessons before it; and the module list
\* has as many modules, each with as many lessons, in the same positions,
\* as the list the node was given.
C30_EveryLessonAttempted ==
  course.pc \in {"finalize_course", "END", "ERROR", "returned"} =>
    (course.lessonsWritten =>
       /\ Len(course.attempts) = Cardinality(PlannedLessons)
       /\ {<<course.attempts[i].m, course.attempts[i].l>> :
             i \in DOMAIN course.attempts} = PlannedLessons
       /\ \A i, j \in DOMAIN course.attempts :
             i < j => \/ course.attempts[i].m < course.attempts[j].m
                      \/ /\ course.attempts[i].m = course.attempts[j].m
                         /\ course.attempts[i].l < course.attempts[j].l
       /\ \A i \in DOMAIN course.attempts :
             course.modules[course.attempts[i].m][course.attempts[i].l] =
               (IF course.attempts[i].out = "raise" THEN "fallback" ELSE "written")
       /\ DOMAIN course.modules = DOMAIN course.planned
       /\ \A m \in DOMAIN course.modules :
             DOMAIN course.modules[m] = DOMAIN course.planned[m])

\* C30 witness: in a list of two modules the first lesson's call raised and
\* a later lesson of the same module and a lesson of the next module were
\* written all the same.
C30_Witness ==
  /\ course.pc = "finalize_course"
  /\ course.lessonsWritten
  /\ Len(course.modules) = 2
  /\ Len(course.modules[1]) = 2
  /\ Len(course.modules[2]) >= 1
  /\ course.modules[1][1] = "fallback"
  /\ course.modules[1][2] = "written"
  /\ course.modules[2][1] = "written"

====
